---- MODULE Spec2Model ----
(***************************************************************************)
(* Ledger and budget evaluation engine of the finance tracker.             *)
(*                                                                         *)
(* Money is counted in minor units (cents): Decimal('0.01') is 1.          *)
(* Dates are day numbers 1..MaxDate.  A primary key is a positive integer  *)
(* handed out by a per-table counter and never reused; None is 0.          *)
(* Every view is @login_required: the user of an action is the logged-in   *)
(* request.user.  A handler that changes state does so in its POST branch; *)
(* its GET branch only renders a form and is not modelled.                 *)
(***************************************************************************)
EXTENDS Integers, Sequences, FiniteSets

\* ---------------------------------------------------------------- bounds
MaxCategories == 1
MaxTransactions == 2
MaxBudgets == 1
MaxDate == 3
\* how far back _months_ago is asked to go
MaxMonthsBack == 25

\* ------------------------------------------------------------ input sets
Users == {1, 2}
Dates == 1..MaxDate
\* the dates a transaction form is posted with: the first and the last day
TransactionDates == {1, MaxDate}
None == 0
Names == {"Food"}
\* '' is the empty new_category field
NewCategoryInputs == {"", "Food"}
AmountInputs == {0, 4}
CapInputs == {0, 4, 5}
CurrencyInputs == {"USD", "XXX"}
DispatchOutcomes == {"sent", "raised"}

\* --------------------------------------------------- program constants
TYPE_CHOICES == {"income", "expense"}
CURRENCY_CHOICES == {"USD", "EUR", "GBP", "INR", "JPY", "CAD", "AUD"}
\* MinValueValidator(Decimal('0.01'))
MinAmount == 1
WarningPct == 80
ExceededPct == 100
DefaultThreshold == 80

\* categories, transactions, budgets, profiles: the rows of the four tables
\* today: the value of date.today()
\* next...Id: the auto-increment primary key counters
\* response: what the last request returned and emitted
VARIABLES categories, transactions, budgets, profiles, today,
          nextCategoryId, nextTransactionId, nextBudgetId, response

vars == <<categories, transactions, budgets, profiles, today,
          nextCategoryId, nextTransactionId, nextBudgetId, response>>

\* ---------------------------------------------------------------- helpers
RECURSIVE SumAmount(_)
SumAmount(S) ==
    IF S = {} THEN 0
    ELSE LET t == CHOOSE x \in S : TRUE
         IN t.amount + SumAmount(S \ {t})

Max(a, b) == IF a >= b THEN a ELSE b

\* a float percentage kept exact as the fraction num/den, den # 0
Pct(n, d) == [num |-> n, den |-> d]

\* pct >= k for an integer k
PctGE(p, k) == IF p.den > 0 THEN p.num >= k * p.den ELSE p.num <= k * p.den

\* pct > k, used by the faulty variants below
PctGT(p, k) == IF p.den > 0 THEN p.num > k * p.den ELSE p.num < k * p.den

\* ------------------------------------------------ Transaction properties
\* faulty variant: the refund flag is forgotten
effective_amount_unsigned(t) == t.amount

effective_amount(t) == IF t.is_refund THEN 0 - t.amount ELSE t.amount

\* faulty variant: the refund flag is read before the type
signed_amount_refund_first(t) ==
    IF t.is_refund THEN 0 - t.amount
    ELSE IF t.type = "income" THEN t.amount ELSE 0 - t.amount

signed_amount(t) ==
    IF t.type = "income" THEN t.amount
    ELSE IF t.is_refund THEN t.amount ELSE 0 - t.amount

\* ----------------------------------------------------- Budget properties
\* Transaction.objects.filter(user=, category=, type='expense', date__range=)
BudgetTransactions(b, txns) ==
    {t \in txns : /\ t.user = b.user
                  /\ t.category = b.category
                  /\ t.type = "expense"
                  /\ b.start_date <= t.date
                  /\ t.date <= b.end_date}

\* the loop "total -= t.amount / total += t.amount" over the queryset
RECURSIVE SpentLoop(_, _)
SpentLoop(S, total) ==
    IF S = {} THEN total
    ELSE LET t == CHOOSE x \in S : TRUE
         IN SpentLoop(S \ {t},
                      IF t.is_refund THEN total - t.amount ELSE total + t.amount)

\* faulty variant: no floor at zero
spent_amount_unclamped(b, txns) == SpentLoop(BudgetTransactions(b, txns), 0)

spent_amount(b, txns) == Max(SpentLoop(BudgetTransactions(b, txns), 0), 0)

remaining_amount(b, txns) == b.amount - spent_amount(b, txns)

\* faulty variant: no test for a zero cap
usage_percentage_unguarded(b, txns) ==
    Pct(spent_amount(b, txns) * 100, b.amount)

usage_percentage(b, txns) ==
    IF b.amount = 0 THEN Pct(0, 1)
    ELSE Pct(spent_amount(b, txns) * 100, b.amount)

\* faulty variant: >= for >
is_exceeded_at_cap(b, txns) == spent_amount(b, txns) >= b.amount

is_exceeded(b, txns) == spent_amount(b, txns) > b.amount

\* faulty variant: the warning band starts above 80
status_strict_warning(b, txns) ==
    LET pct == usage_percentage(b, txns)
    IN IF PctGE(pct, ExceededPct) THEN "exceeded"
       ELSE IF PctGT(pct, WarningPct) THEN "warning"
       ELSE "good"

status(b, txns) ==
    LET pct == usage_percentage(b, txns)
    IN IF PctGE(pct, ExceededPct) THEN "exceeded"
       ELSE IF PctGE(pct, WarningPct) THEN "warning"
       ELSE "good"

\* ------------------------------------------------------------ the tables
Category(id, user, name, type) ==
    [type |-> type, user |-> user, id |-> id, name |-> name]

Transaction(id, user, category, type, amount, is_refund, currency, aipc, date) ==
    [amount |-> amount, is_refund |-> is_refund, type |-> type,
     user |-> user, category |-> category, date |-> date, id |-> id,
     currency |-> currency, amount_in_preferred_currency |-> aipc]

Budget(id, user, category, amount, start_date, end_date) ==
    [amount |-> amount, user |-> user, category |-> category,
     start_date |-> start_date, end_date |-> end_date, id |-> id]

UserProfile(user, currency, email, threshold) ==
    [user |-> user, preferred_currency |-> currency,
     budget_alert_email |-> email, budget_alert_threshold |-> threshold]

HasProfile(u) == \E p \in profiles : p.user = u
ProfileOf(u) == CHOOSE p \in profiles : p.user = u

\* faulty variant: get_object_or_404(Model, pk=pk)
Found_any_owner(rows, pk, u) == \E r \in rows : r.id = pk

\* get_object_or_404(Model, pk=pk, user=request.user)
Found(rows, pk, u) == \E r \in rows : r.id = pk /\ r.user = u
Row(rows, pk) == CHOOSE r \in rows : r.id = pk

\* ---------------------------------------------------------- the response
\* status: 302 redirect after success, 200 form shown again with errors,
\* 404 not found, 500 unhandled exception
\* messages: the django.contrib.messages calls of the request, in order
\* emails: the send_budget_alert calls of the request, in order
\* net_worth: the net worth in the dashboard context
Response(st, msgs, mails, worth) ==
    [status |-> st, messages |-> msgs, emails |-> mails, net_worth |-> worth]

\* messages.success / messages.warning: what the text is about, and the
\* number it carries (a budget's key, a count)
Message(level, about, n) == [n |-> n, level |-> level, about |-> about]

\* a response without messages
Plain(st) == Response(st, <<>>, <<>>, 0)

\* the redirect after a success, with its messages.success
Done(about) == Response(302, <<Message("success", about, 0)>>, <<>>, 0)

\* ----------------------------------------------------- currency conversion
\* what requests.get(...).json() gave: the call raised, the body was not
\* the expected JSON object, the body had no 'result' == 'success', or it
\* succeeded with a conversion_result
RateLookups ==
    {[kind |-> "exception", result |-> 0],
     [kind |-> "malformed", result |-> 0],
     [kind |-> "error", result |-> 0],
     [kind |-> "success", result |-> 9]}

\* requests.get is reached only when the two currencies differ
NoLookup == [kind |-> "none", result |-> 0]
LookupsFor(from_currency, to_currency) ==
    IF from_currency = to_currency THEN {NoLookup} ELSE RateLookups

\* faulty variant: no early return for equal currencies
convert_currency_no_shortcut(amount, from_currency, to_currency, lookup) ==
    IF lookup.kind = "success" THEN lookup.result ELSE amount

\* faulty variant: the 'result' field of the body is not looked at
convert_currency_trusting(amount, from_currency, to_currency, lookup) ==
    IF from_currency = to_currency THEN amount
    ELSE IF lookup.kind \in {"success", "error"} THEN lookup.result
    ELSE amount

convert_currency(amount, from_currency, to_currency, lookup) ==
    IF from_currency = to_currency THEN amount
    ELSE IF lookup.kind = "success" THEN lookup.result
    ELSE amount

\* the number of requests.get calls convert_currency makes
requests_get_calls(from_currency, to_currency) ==
    IF from_currency = to_currency THEN 0 ELSE 1

\* ------------------------------------------------------- budget alerting
\* Budget.Meta.ordering = ['-start_date'], ties in primary key order
RECURSIVE OrderBudgets(_)
OrderBudgets(S) ==
    IF S = {} THEN <<>>
    ELSE LET b == CHOOSE x \in S : \A y \in S :
                      \/ x.start_date > y.start_date
                      \/ x.start_date = y.start_date /\ x.id <= y.id
         IN <<b>> \o OrderBudgets(S \ {b})

\* faulty variant: the budgets active on the transaction's date
AlertBudgets_on_transaction_date(u, t, bs, day) ==
    {b \in bs : /\ b.user = u
                /\ b.category = t.category
                /\ b.start_date <= t.date
                /\ b.end_date >= t.date}

\* Budget.objects.filter(user=, category=, start_date__lte=today, end_date__gte=today)
AlertBudgets(u, t, bs, day) ==
    {b \in bs : /\ b.user = u
                /\ b.category = t.category
                /\ b.start_date <= day
                /\ b.end_date >= day}

\* faulty variant: no try/except around send_mail
send_budget_alert_uncaught(b, outcome) ==
    [outcome |-> outcome[b.id], budget |-> b.id,
     propagated |-> (outcome[b.id] = "raised")]

\* send_budget_alert: one send_mail call inside try/except Exception, so a
\* send_mail that raises is logged and nothing propagates to the caller
send_budget_alert(b, outcome) ==
    [outcome |-> outcome[b.id], budget |-> b.id, propagated |-> FALSE]

\* faulty variant: > for >=
ShouldAlert_strict(usage_percent, threshold) == PctGT(usage_percent, threshold)

\* "if usage_percent >= threshold"
ShouldAlert(usage_percent, threshold) == PctGE(usage_percent, threshold)

\* the body of "for budget in budgets", over the budgets still to visit;
\* out is what has been emitted so far, out.error an exception that ended
\* the loop
RECURSIVE AlertLoop(_, _, _, _, _)
AlertLoop(todo, txns, prof, outcome, out) ==
    IF todo = <<>> \/ out.error THEN out
    ELSE LET budget == Head(todo)
             usage_percent == usage_percentage(budget, txns)
             threshold == prof.budget_alert_threshold
             warned == Append(out.notifications,
                              Message("warning", "budget_alert", budget.id))
             mail == send_budget_alert(budget, outcome)
             next ==
                 IF ShouldAlert(usage_percent, threshold)
                 THEN IF prof.budget_alert_email
                      THEN [emails |-> Append(out.emails,
                                              [outcome |-> mail.outcome,
                                               budget |-> mail.budget]),
                            error |-> mail.propagated,
                            notifications |-> warned]
                      ELSE [emails |-> out.emails, error |-> FALSE,
                            notifications |-> warned]
                 ELSE out
         IN AlertLoop(Tail(todo), txns, prof, outcome, next)

NoAlerts == [emails |-> <<>>, error |-> FALSE, notifications |-> <<>>]

\* faulty variant: no early return for an income or a missing category
check_budget_alert_unguarded(u, t, txns, bs, day, prof, outcome) ==
    AlertLoop(OrderBudgets(AlertBudgets(u, t, bs, day)),
              txns, prof, outcome, NoAlerts)

\* faulty variant: a budget already at the threshold before the save is
\* passed over
check_budget_alert_on_crossing(u, t, txns, bs, day, prof, outcome) ==
    IF t.type # "expense" \/ t.category = None THEN NoAlerts
    ELSE AlertLoop(OrderBudgets(
                       {b \in AlertBudgets(u, t, bs, day) :
                           ~ShouldAlert(usage_percentage(b, txns \ {t}),
                                        prof.budget_alert_threshold)}),
                   txns, prof, outcome, NoAlerts)

\* faulty variant: the loop goes over the budgets twice
check_budget_alert_twice(u, t, txns, bs, day, prof, outcome) ==
    IF t.type # "expense" \/ t.category = None THEN NoAlerts
    ELSE AlertLoop(OrderBudgets(AlertBudgets(u, t, bs, day))
                       \o OrderBudgets(AlertBudgets(u, t, bs, day)),
                   txns, prof, outcome, NoAlerts)

\* _check_budget_alert(request, transaction) with the tables as they are
\* after transaction.save()
check_budget_alert(u, t, txns, bs, day, prof, outcome) ==
    IF t.type # "expense" \/ t.category = None THEN NoAlerts
    ELSE AlertLoop(OrderBudgets(AlertBudgets(u, t, bs, day)),
                   txns, prof, outcome, NoAlerts)

\* ------------------------------------------------------------- the forms
\* the POST data of a TransactionForm: the forms whose fields are well
\* formed, with a category picked or a new category named, and forms with
\* a bad amount or a bad currency code
TransactionInputs ==
    {f \in [amount : {a \in AmountInputs : a >= MinAmount},
            is_refund : BOOLEAN, type : TYPE_CHOICES,
            category : 0..MaxCategories, date : TransactionDates,
            currency : CurrencyInputs \cap CURRENCY_CHOICES,
            new_category : NewCategoryInputs] :
        f.new_category = "" \/ f.category = None}
    \cup
    {f \in [amount : AmountInputs, is_refund : {FALSE}, type : TYPE_CHOICES,
            category : {None}, date : {1}, currency : CurrencyInputs,
            new_category : NewCategoryInputs] :
        f.amount < MinAmount \/ f.currency \notin CURRENCY_CHOICES}

\* the budget forms posted with start_date >= end_date
BadRangeInputs ==
    [amount : {0}, category : 0..MaxCategories,
     start_date : {1, 2}, end_date : {1}]

\* the POST data of a BudgetForm: every form with start_date < end_date,
\* and forms with start_date >= end_date
BudgetInputs ==
    {g \in [amount : CapInputs, category : 0..MaxCategories,
            start_date : Dates, end_date : Dates] :
        g.start_date < g.end_date}
    \cup BadRangeInputs

\* faulty variant: the amount field has no MinValueValidator
TransactionFieldsValid_any_amount(u, f, cats) ==
    /\ f.category = None \/ Found(cats, f.category, u)
    /\ f.currency \in CURRENCY_CHOICES

\* field cleaning of TransactionForm: the category must be in
\* Category.objects.filter(user=user) or empty, the amount passes
\* MinValueValidator, the currency is one of the choices
TransactionFieldsValid(u, f, cats) ==
    /\ f.category = None \/ Found(cats, f.category, u)
    /\ f.amount >= MinAmount
    /\ f.currency \in CURRENCY_CHOICES

\* faulty variant: Category.objects.create in place of get_or_create
TransactionForm_clean_always_creates(u, f, cats, nextId) ==
    LET category == IF Found(cats, f.category, u) THEN f.category ELSE None
    IN IF f.new_category # ""
       THEN [categories |-> cats \cup
                            {Category(nextId, u, f.new_category, f.type)},
             nextCategoryId |-> nextId + 1,
             category |-> nextId,
             created |-> TRUE, error |-> FALSE]
       ELSE [categories |-> cats, nextCategoryId |-> nextId,
             category |-> category, created |-> FALSE,
             error |-> (category # None /\ Row(cats, category).type # f.type)]

\* TransactionForm.clean: runs after field cleaning whether or not a field
\* failed; a failed category field reads as None.  get_or_create writes
\* to the Category table at once.
TransactionForm_clean(u, f, cats, nextId) ==
    LET category == IF Found(cats, f.category, u) THEN f.category ELSE None
        existing == {c \in cats : /\ c.name = f.new_category
                                  /\ c.type = f.type
                                  /\ c.user = u}
    IN IF f.new_category # ""
       THEN IF existing # {}
            THEN [categories |-> cats, nextCategoryId |-> nextId,
                  category |-> (CHOOSE c \in existing : TRUE).id,
                  created |-> FALSE, error |-> FALSE]
            ELSE [categories |-> cats \cup
                                 {Category(nextId, u, f.new_category, f.type)},
                  nextCategoryId |-> nextId + 1,
                  category |-> nextId,
                  created |-> TRUE, error |-> FALSE]
       ELSE [categories |-> cats, nextCategoryId |-> nextId,
             category |-> category, created |-> FALSE,
             error |-> (category # None /\ Row(cats, category).type # f.type)]

\* field cleaning of BudgetForm: the category is required and must be in
\* Category.objects.filter(user=user, type='expense')
BudgetFieldsValid(u, g, cats) ==
    /\ Found(cats, g.category, u)
    /\ Row(cats, g.category).type = "expense"

\* faulty variant: "start > end", equal dates pass
BudgetForm_clean_allows_equal(g) == [error |-> g.start_date > g.end_date]

\* BudgetForm.clean
BudgetForm_clean(g) == [error |-> g.start_date >= g.end_date]

\* ---------------------------------------------------------- category views
\* CategoryForm leaves user out of its fields, so unique_together
\* (user, name, type) is enforced by the table alone: a duplicate raises
\* IntegrityError at save()
category_create_upto(limit, u, name, type) ==
    /\ IF \E c \in categories : c.user = u /\ c.name = name /\ c.type = type
       THEN /\ response' = Plain(500)
            /\ UNCHANGED <<categories, nextCategoryId>>
       ELSE /\ nextCategoryId <= limit
            /\ categories' = categories \cup
                                {Category(nextCategoryId, u, name, type)}
            /\ nextCategoryId' = nextCategoryId + 1
            /\ response' = Done("category_create")
    /\ UNCHANGED <<transactions, budgets, profiles, today,
                   nextTransactionId, nextBudgetId>>

\* category_create while at most MaxCategories categories were ever stored
category_create(u, name, type) ==
    category_create_upto(MaxCategories, u, name, type)

category_edit(u, pk, name, type) ==
    /\ IF ~Found(categories, pk, u)
       THEN /\ response' = Plain(404)
            /\ UNCHANGED categories
       ELSE IF \E c \in categories : /\ c.id # pk /\ c.user = u
                                      /\ c.name = name /\ c.type = type
       THEN /\ response' = Plain(500)
            /\ UNCHANGED categories
       ELSE /\ categories' = (categories \ {Row(categories, pk)}) \cup
                                {Category(pk, u, name, type)}
            /\ response' = Done("category_edit")
    /\ UNCHANGED <<transactions, budgets, profiles, today,
                   nextCategoryId, nextTransactionId, nextBudgetId>>

\* faulty variant: Transaction.category declared on_delete=CASCADE
category_delete_cascade(u, pk) ==
    /\ IF ~Found(categories, pk, u)
       THEN /\ response' = Plain(404)
            /\ UNCHANGED <<categories, transactions, budgets>>
       ELSE /\ categories' = categories \ {Row(categories, pk)}
            /\ transactions' = {t \in transactions : t.category # pk}
            /\ budgets' = {b \in budgets : b.category # pk}
            /\ response' = Response(302,
                   <<Message("warning", "category_delete",
                             Cardinality({t \in transactions : t.category = pk}))>>,
                   <<>>, 0)
    /\ UNCHANGED <<profiles, today,
                   nextCategoryId, nextTransactionId, nextBudgetId>>

\* faulty variant: Budget.category declared without the cascade
category_delete_keeps_budgets(u, pk) ==
    /\ IF ~Found(categories, pk, u)
       THEN /\ response' = Plain(404)
            /\ UNCHANGED <<categories, transactions, budgets>>
       ELSE /\ categories' = categories \ {Row(categories, pk)}
            /\ transactions' =
                   {IF t.category = pk THEN [t EXCEPT !.category = None] ELSE t
                      : t \in transactions}
            /\ budgets' = budgets
            /\ response' = Response(302,
                   <<Message("warning", "category_delete",
                             Cardinality({t \in transactions : t.category = pk}))>>,
                   <<>>, 0)
    /\ UNCHANGED <<profiles, today,
                   nextCategoryId, nextTransactionId, nextBudgetId>>

\* Category.delete(): Transaction.category is on_delete=SET_NULL,
\* Budget.category is on_delete=CASCADE
category_delete(u, pk) ==
    /\ IF ~Found(categories, pk, u)
       THEN /\ response' = Plain(404)
            /\ UNCHANGED <<categories, transactions, budgets>>
       ELSE /\ categories' = categories \ {Row(categories, pk)}
            /\ transactions' =
                   {IF t.category = pk THEN [t EXCEPT !.category = None] ELSE t
                      : t \in transactions}
            /\ budgets' = {b \in budgets : b.category # pk}
            /\ response' = Response(302,
                   <<Message("warning", "category_delete",
                             Cardinality({t \in transactions : t.category = pk}))>>,
                   <<>>, 0)
    /\ UNCHANGED <<profiles, today,
                   nextCategoryId, nextTransactionId, nextBudgetId>>

\* -------------------------------------------------------- transaction views
\* faulty variant: a dispatch that raised takes the saved row away again
transaction_create_rollback(u, f) ==
    LET clean == TransactionForm_clean(u, f, categories, nextCategoryId)
        valid == TransactionFieldsValid(u, f, categories) /\ ~clean.error
    IN /\ clean.created => nextCategoryId <= MaxCategories
       /\ categories' = clean.categories
       /\ nextCategoryId' = clean.nextCategoryId
       /\ IF ~valid
          THEN /\ response' = Plain(200)
               /\ UNCHANGED <<transactions, nextTransactionId>>
          ELSE IF ~HasProfile(u)
          THEN /\ response' = Plain(500)
               /\ UNCHANGED <<transactions, nextTransactionId>>
          ELSE /\ nextTransactionId <= MaxTransactions
               /\ \E lookup \in LookupsFor(f.currency,
                                            ProfileOf(u).preferred_currency) :
                    LET t == Transaction(nextTransactionId, u, clean.category,
                                f.type, f.amount, f.is_refund, f.currency,
                                convert_currency(f.amount, f.currency,
                                    ProfileOf(u).preferred_currency, lookup),
                                f.date)
                        saved == transactions \cup {t}
                        ids == {b.id : b \in AlertBudgets(u, t, budgets, today)}
                    IN \E outcome \in [ids -> DispatchOutcomes] :
                         LET alerts == check_budget_alert(u, t, saved, budgets,
                                           today, ProfileOf(u), outcome)
                             raised == \E i \in DOMAIN alerts.emails :
                                          alerts.emails[i].outcome = "raised"
                         IN /\ transactions' = IF raised THEN transactions
                                                         ELSE saved
                            /\ nextTransactionId' = nextTransactionId + 1
                            /\ response' =
                                 Response(302,
                                     Append(alerts.notifications,
                                         Message("success",
                                             "transaction_create", 0)),
                                     alerts.emails, 0)
       /\ UNCHANGED <<budgets, profiles, today, nextBudgetId>>

transaction_create_upto(limit, u, f) ==
    LET clean == TransactionForm_clean(u, f, categories, nextCategoryId)
        valid == TransactionFieldsValid(u, f, categories) /\ ~clean.error
    IN /\ clean.created => nextCategoryId <= limit
       /\ categories' = clean.categories
       /\ nextCategoryId' = clean.nextCategoryId
       /\ IF ~valid
          THEN /\ response' = Plain(200)
               /\ UNCHANGED <<transactions, nextTransactionId>>
          ELSE IF ~HasProfile(u)
          THEN \* request.user.profile raises RelatedObjectDoesNotExist
               /\ response' = Plain(500)
               /\ UNCHANGED <<transactions, nextTransactionId>>
          ELSE /\ nextTransactionId <= MaxTransactions
               /\ \E lookup \in LookupsFor(f.currency,
                                            ProfileOf(u).preferred_currency) :
                    LET t == Transaction(nextTransactionId, u, clean.category,
                                f.type, f.amount, f.is_refund, f.currency,
                                convert_currency(f.amount, f.currency,
                                    ProfileOf(u).preferred_currency, lookup),
                                f.date)
                        saved == transactions \cup {t}
                        ids == {b.id : b \in AlertBudgets(u, t, budgets, today)}
                    IN \E outcome \in [ids -> DispatchOutcomes] :
                         LET alerts == check_budget_alert(u, t, saved, budgets,
                                           today, ProfileOf(u), outcome)
                         IN /\ transactions' = saved
                            /\ nextTransactionId' = nextTransactionId + 1
                            /\ response' =
                                 IF alerts.error
                                 THEN Response(500, alerts.notifications,
                                               alerts.emails, 0)
                                 ELSE Response(302,
                                          Append(alerts.notifications,
                                              Message("success",
                                                  "transaction_create", 0)),
                                          alerts.emails, 0)
       /\ UNCHANGED <<budgets, profiles, today, nextBudgetId>>

\* transaction_create while at most MaxCategories categories were ever stored
transaction_create(u, f) == transaction_create_upto(MaxCategories, u, f)

transaction_edit(u, pk) ==
    IF ~Found(transactions, pk, u)
    THEN /\ response' = Plain(404)
         /\ UNCHANGED <<categories, transactions, budgets, profiles, today,
                        nextCategoryId, nextTransactionId, nextBudgetId>>
    ELSE \E f \in TransactionInputs :
         LET clean == TransactionForm_clean(u, f, categories, nextCategoryId)
             valid == TransactionFieldsValid(u, f, categories) /\ ~clean.error
         IN /\ clean.created => nextCategoryId <= MaxCategories
            /\ categories' = clean.categories
            /\ nextCategoryId' = clean.nextCategoryId
            /\ IF ~valid
               THEN /\ response' = Plain(200)
                    /\ UNCHANGED transactions
               ELSE IF ~HasProfile(u)
               THEN /\ response' = Plain(500)
                    /\ UNCHANGED transactions
               ELSE \E lookup \in LookupsFor(f.currency,
                                             ProfileOf(u).preferred_currency) :
                    /\ transactions' =
                          (transactions \ {Row(transactions, pk)}) \cup
                          {Transaction(pk, u, clean.category, f.type, f.amount,
                                       f.is_refund, f.currency,
                                       convert_currency(f.amount, f.currency,
                                           ProfileOf(u).preferred_currency, lookup),
                                       f.date)}
                    /\ response' = Done("transaction_edit")
            /\ UNCHANGED <<budgets, profiles, today,
                           nextTransactionId, nextBudgetId>>

transaction_delete(u, pk) ==
    /\ IF ~Found(transactions, pk, u)
       THEN /\ response' = Plain(404)
            /\ UNCHANGED transactions
       ELSE /\ transactions' = transactions \ {Row(transactions, pk)}
            /\ response' = Done("transaction_delete")
    /\ UNCHANGED <<categories, budgets, profiles, today,
                   nextCategoryId, nextTransactionId, nextBudgetId>>

\* the detail page: a read
transaction_detail(u, pk) ==
    /\ response' = IF Found(transactions, pk, u) THEN Plain(200) ELSE Plain(404)
    /\ UNCHANGED <<categories, transactions, budgets, profiles, today,
                   nextCategoryId, nextTransactionId, nextBudgetId>>

\* ------------------------------------------------------------ budget views
budget_create(u, g) ==
    /\ IF ~BudgetFieldsValid(u, g, categories) \/ BudgetForm_clean(g).error
       THEN /\ response' = Plain(200)
            /\ UNCHANGED <<budgets, nextBudgetId>>
       ELSE /\ nextBudgetId <= MaxBudgets
            /\ budgets' = budgets \cup
                             {Budget(nextBudgetId, u, g.category, g.amount,
                                     g.start_date, g.end_date)}
            /\ nextBudgetId' = nextBudgetId + 1
            /\ response' = Done("budget_create")
    /\ UNCHANGED <<categories, transactions, profiles, today,
                   nextCategoryId, nextTransactionId>>

budget_edit(u, pk, g) ==
    /\ IF ~Found(budgets, pk, u)
       THEN /\ response' = Plain(404)
            /\ UNCHANGED budgets
       ELSE IF ~BudgetFieldsValid(u, g, categories) \/ BudgetForm_clean(g).error
       THEN /\ response' = Plain(200)
            /\ UNCHANGED budgets
       ELSE /\ budgets' = (budgets \ {Row(budgets, pk)}) \cup
                             {Budget(pk, u, g.category, g.amount,
                                     g.start_date, g.end_date)}
            /\ response' = Done("budget_edit")
    /\ UNCHANGED <<categories, transactions, profiles, today,
                   nextCategoryId, nextTransactionId, nextBudgetId>>

budget_delete(u, pk) ==
    /\ IF ~Found(budgets, pk, u)
       THEN /\ response' = Plain(404)
            /\ UNCHANGED budgets
       ELSE /\ budgets' = budgets \ {Row(budgets, pk)}
            /\ response' = Done("budget_delete")
    /\ UNCHANGED <<categories, transactions, profiles, today,
                   nextCategoryId, nextTransactionId, nextBudgetId>>

\* --------------------------------------------------------------- dashboard
\* .aggregate(t=Sum('amount'))['t'] or Decimal('0.00')
Aggregate(rows) == SumAmount(rows)

\* faulty variant: refunds subtracted a second time
net_worth_refunds_subtracted(u, txns) ==
    LET total_income == Aggregate({t \in txns : t.user = u /\ t.type = "income"})
        total_expense == Aggregate({t \in txns : /\ t.user = u
                                                  /\ t.type = "expense"
                                                  /\ ~t.is_refund})
        total_refunds == Aggregate({t \in txns : /\ t.user = u
                                                  /\ t.type = "expense"
                                                  /\ t.is_refund})
    IN total_income - total_expense - total_refunds

\* the all-time net worth of the dashboard context
net_worth(u, txns) ==
    LET total_income == Aggregate({t \in txns : t.user = u /\ t.type = "income"})
        total_expense == Aggregate({t \in txns : /\ t.user = u
                                                  /\ t.type = "expense"
                                                  /\ ~t.is_refund})
        total_refunds == Aggregate({t \in txns : /\ t.user = u
                                                  /\ t.type = "expense"
                                                  /\ t.is_refund})
    IN total_income - total_expense + total_refunds

\* "for t in monthly_qs.filter(type='expense'): monthly_expenses +=
\* t.effective_amount"
RECURSIVE ExpenseLoop(_, _)
ExpenseLoop(rows, total) ==
    IF rows = {} THEN total
    ELSE LET t == CHOOSE x \in rows : TRUE
         IN ExpenseLoop(rows \ {t}, total + effective_amount(t))

\* the month's expenses of the dashboard, rows being the month's queryset
monthly_expenses(rows) ==
    Max(ExpenseLoop({t \in rows : t.type = "expense"}, 0), 0)

\* the month's expenses of the yearly report
yearly_expense(rows) ==
    LET expenses == ExpenseLoop({t \in rows : t.type = "expense"}, 0)
    IN Max(expenses, 0)

\* faulty variant: the difference is not clamped
chart_expense_unclamped(rows) ==
    LET exp == Aggregate({t \in rows : t.type = "expense" /\ ~t.is_refund})
        ref == Aggregate({t \in rows : t.type = "expense" /\ t.is_refund})
    IN exp - ref

\* the month's expenses of the dashboard's six-month chart
chart_expense(rows) ==
    LET exp == Aggregate({t \in rows : t.type = "expense" /\ ~t.is_refund})
        ref == Aggregate({t \in rows : t.type = "expense" /\ t.is_refund})
    IN Max(exp - ref, 0)

dashboard(u) ==
    /\ response' = Response(200, <<>>, <<>>, net_worth(u, transactions))
    /\ UNCHANGED <<categories, transactions, budgets, profiles, today,
                   nextCategoryId, nextTransactionId, nextBudgetId>>

\* the months of a year, and the months of the dashboard's bar chart
MonthsInYear == 12
ChartMonths == 6

\* "while month <= 0: month += 12; year -= 1"
RECURSIVE MonthsAgoLoop(_, _)
MonthsAgoLoop(month, year) ==
    IF month <= 0 THEN MonthsAgoLoop(month + MonthsInYear, year - 1)
    ELSE <<month, year>>

\* faulty variant: "while month < 0"
months_ago_off_by_one(d, n) ==
    IF d.month - n = 0 THEN <<0, d.year>>
    ELSE MonthsAgoLoop(d.month - n, d.year)

\* _months_ago(today, n): the pair (month, year)
months_ago(d, n) == MonthsAgoLoop(d.month - n, d.year)

\* "for i in range(5, -1, -1)": the (month, year) of each bar, oldest first
MonthlyBuckets(d) ==
    [k \in 1..ChartMonths |-> months_ago(d, ChartMonths - k)]

\* ------------------------------------------------------------------- time
\* date.today() moves from the first day of a run to its last day
DaysPass ==
    /\ today < MaxDate
    /\ today' = MaxDate
    /\ UNCHANGED <<categories, transactions, budgets, profiles,
                   nextCategoryId, nextTransactionId, nextBudgetId, response>>

\* ---------------------------------------------------------- specification
\* the profile tables the runs start from: a profile row per user, or no
\* row for a user whose profile was never made
InitProfiles ==
    {{UserProfile(1, "USD", TRUE, DefaultThreshold),
      UserProfile(2, "USD", FALSE, ExceededPct)},
     {UserProfile(1, "USD", FALSE, ExceededPct)}}

Init ==
    /\ categories = {}
    /\ transactions = {}
    /\ budgets = {}
    /\ profiles \in InitProfiles
    /\ today = 1
    /\ nextCategoryId = 1
    /\ nextTransactionId = 1
    /\ nextBudgetId = 1
    /\ response = Plain(0)

\* the category and transaction requests of the users in U
LedgerNext(U) ==
    \/ \E u \in U, name \in Names, type \in TYPE_CHOICES :
          category_create(u, name, type)
    \/ \E u \in U, pk \in 1..MaxCategories, name \in Names,
          type \in TYPE_CHOICES :
          category_edit(u, pk, name, type)
    \/ \E u \in U, pk \in 1..MaxCategories : category_delete(u, pk)
    \/ \E u \in U, f \in TransactionInputs : transaction_create(u, f)
    \/ \E u \in U, pk \in 1..MaxTransactions : transaction_edit(u, pk)
    \/ \E u \in U, pk \in 1..MaxTransactions : transaction_delete(u, pk)

\* the budget requests of the users in U
BudgetNext(U) ==
    \/ \E u \in U, g \in BudgetInputs : budget_create(u, g)
    \/ \E u \in U, pk \in 1..MaxBudgets, g \in BudgetInputs :
          budget_edit(u, pk, g)
    \/ \E u \in U, pk \in 1..MaxBudgets : budget_delete(u, pk)

\* two owners keep their ledgers and look at the dashboard
SpecLedger ==
    Init /\ [][LedgerNext(Users) \/ \E u \in Users : dashboard(u)]_vars

\* one owner keeps a ledger and budgets on it, all in one day
Owner == {1}
SpecBudget == Init /\ [][LedgerNext(Owner) \/ BudgetNext(Owner)]_vars

\* the requests of one owner whose categories keep their name and type,
\* while the days pass
AlertNext ==
    \/ \E u \in Owner, name \in Names, type \in TYPE_CHOICES :
          category_create(u, name, type)
    \/ \E u \in Owner, pk \in 1..MaxCategories : category_delete(u, pk)
    \/ \E u \in Owner, f \in TransactionInputs : transaction_create(u, f)
    \/ \E u \in Owner, pk \in 1..MaxTransactions : transaction_edit(u, pk)
    \/ \E u \in Owner, pk \in 1..MaxTransactions : transaction_delete(u, pk)
    \/ BudgetNext(Owner)
    \/ DaysPass

SpecAlert == Init /\ [][AlertNext]_vars

\* one owner sets up categories and budgets, before any transaction
PlanningNext ==
    \/ \E u \in Owner, name \in Names, type \in TYPE_CHOICES :
          category_create(u, name, type)
    \/ \E u \in Owner, pk \in 1..MaxCategories, name \in Names,
          type \in TYPE_CHOICES :
          category_edit(u, pk, name, type)
    \/ \E u \in Owner, pk \in 1..MaxCategories : category_delete(u, pk)
    \/ BudgetNext(Owner)

SpecPlanning == Init /\ [][PlanningNext]_vars

\* every request user u can make
RequestBy(u) ==
    \/ LedgerNext({u})
    \/ BudgetNext({u})
    \/ \E pk \in 1..MaxTransactions : transaction_detail(u, pk)

\* the ledgers in which every transaction is dated the first day and is no
\* refund, and every budget caps 4 over the whole run
PlainLedger ==
    /\ \A t \in transactions : t.date = 1 /\ ~t.is_refund
    /\ \A b \in budgets : /\ b.amount = 4
                           /\ b.start_date = 1
                           /\ b.end_date = MaxDate

\* two owners keep plain ledgers and budgets side by side
SpecOwners ==
    Init /\ [][(\E u \in Users : RequestBy(u)) /\ PlainLedger']_vars

\* two owners fill their catalogues of categories, by the category form and
\* by the new-category field of the transaction form
MaxCatalogue == 3
NewCategoryForms ==
    {f \in TransactionInputs :
        /\ f.new_category # "" /\ f.amount >= MinAmount
        /\ f.date = 1 /\ ~f.is_refund}

CatalogueNext ==
    \/ \E u \in Users, name \in Names, type \in TYPE_CHOICES :
          category_create_upto(MaxCatalogue, u, name, type)
    \/ \E u \in Users, pk \in 1..MaxCatalogue, name \in Names,
          type \in TYPE_CHOICES :
          category_edit(u, pk, name, type)
    \/ \E u \in Users, f \in NewCategoryForms :
          transaction_create_upto(MaxCatalogue, u, f)

SpecCatalogue == Init /\ [][CatalogueNext]_vars

\* one owner sets up a category and budgets and records purchases and
\* refunds of two sizes, while the days pass
LevelAmounts == {4, 9}
LevelForms ==
    [amount : LevelAmounts, is_refund : BOOLEAN, type : TYPE_CHOICES,
     category : 0..MaxCategories, date : TransactionDates,
     currency : CurrencyInputs \cap CURRENCY_CHOICES, new_category : {""}]

LevelNext ==
    \/ \E u \in Owner, name \in Names : category_create(u, name, "expense")
    \/ \E u \in Owner, g \in BudgetInputs : budget_create(u, g)
    \/ \E u \in Owner, f \in LevelForms : transaction_create(u, f)
    \/ DaysPass

SpecLevel == Init /\ [][LevelNext]_vars

\* two transaction_create requests of one owner in flight at once, each
\* worker at its own place in the view: before transaction.save(), between
\* save() and _check_budget_alert, or done.  response holds, per request,
\* that place, the key of the row it saved and what it answers.
Requests == {1, 2}

InFlight(pc, transaction, answer) ==
    [response |-> answer, pc |-> pc, transaction |-> transaction]

\* the owner has a category and one budget on it, made before the requests
RaceBudgets ==
    {Budget(1, 1, 1, cap, start_date, MaxDate) :
        cap \in CapInputs, start_date \in {1, 2}}

RaceInit ==
    /\ categories = {Category(1, 1, "Food", "expense")}
    /\ transactions = {}
    /\ budgets \in {{b} : b \in RaceBudgets}
    /\ profiles \in InitProfiles
    /\ today = 1
    /\ nextCategoryId = 2
    /\ nextTransactionId = 1
    /\ nextBudgetId = 2
    /\ response = [r \in Requests |-> InFlight("start", None, Plain(0))]

\* the forms of the two requests: a category picked or none, no new category
RaceForms ==
    {f \in TransactionInputs : f.new_category = "" /\ f.amount >= MinAmount}

\* transaction_create of request r up to and including transaction.save()
transaction_create_save(r, u, f) ==
    LET clean == TransactionForm_clean(u, f, categories, nextCategoryId)
        valid == TransactionFieldsValid(u, f, categories) /\ ~clean.error
    IN /\ response[r].pc = "start"
       /\ IF ~valid
          THEN /\ response' = [response EXCEPT
                                 ![r] = InFlight("done", None, Plain(200))]
               /\ UNCHANGED <<transactions, nextTransactionId>>
          ELSE IF ~HasProfile(u)
          THEN /\ response' = [response EXCEPT
                                 ![r] = InFlight("done", None, Plain(500))]
               /\ UNCHANGED <<transactions, nextTransactionId>>
          ELSE /\ nextTransactionId <= MaxTransactions
               /\ \E lookup \in LookupsFor(f.currency,
                                            ProfileOf(u).preferred_currency) :
                    transactions' = transactions \cup
                        {Transaction(nextTransactionId, u, clean.category,
                             f.type, f.amount, f.is_refund, f.currency,
                             convert_currency(f.amount, f.currency,
                                 ProfileOf(u).preferred_currency, lookup),
                             f.date)}
               /\ nextTransactionId' = nextTransactionId + 1
               /\ response' = [response EXCEPT
                                 ![r] = InFlight("saved", nextTransactionId,
                                                 Plain(0))]
       /\ UNCHANGED <<categories, budgets, profiles, today,
                      nextCategoryId, nextBudgetId>>

\* faulty variant: the usage is read before the request's own row is saved
RowsRead_before_save(r) ==
    {t \in transactions : t.id < response[r].transaction}

\* the rows the usage query of request r finds: the table as it is when
\* the query runs
RowsRead(r) == transactions

\* transaction_create of request r from _check_budget_alert to the redirect
transaction_create_alert(r) ==
    /\ response[r].pc = "saved"
    /\ LET t == Row(transactions, response[r].transaction)
           ids == {b.id : b \in AlertBudgets(t.user, t, budgets, today)}
       IN \E outcome \in [ids -> DispatchOutcomes] :
            LET alerts == check_budget_alert(t.user, t, RowsRead(r), budgets,
                              today, ProfileOf(t.user), outcome)
            IN response' = [response EXCEPT
                   ![r] = InFlight("done", t.id,
                             IF alerts.error
                             THEN Response(500, alerts.notifications,
                                           alerts.emails, 0)
                             ELSE Response(302,
                                      Append(alerts.notifications,
                                          Message("success",
                                              "transaction_create", 0)),
                                      alerts.emails, 0))]
    /\ UNCHANGED <<categories, transactions, budgets, profiles, today,
                   nextCategoryId, nextTransactionId, nextBudgetId>>

RaceNext ==
    \/ \E r \in Requests, u \in Owner, f \in RaceForms :
          transaction_create_save(r, u, f)
    \/ \E r \in Requests : transaction_create_alert(r)

SpecRace == RaceInit /\ [][RaceNext]_vars

\* the helper functions called on their own: what was called with which
\* arguments, and what it gave
ConvertAmounts == {1, 4, 9}
ChartYears == {2025, 2026}

convert_currency_call(amount, from_currency, to_currency, lookup) ==
    /\ response' = [amount |-> amount,
                    result |-> convert_currency(amount, from_currency,
                                                to_currency, lookup),
                    from_currency |-> from_currency,
                    to_currency |-> to_currency,
                    lookup |-> lookup.kind,
                    call |-> "convert_currency",
                    requests |-> requests_get_calls(from_currency, to_currency)]
    /\ UNCHANGED <<categories, transactions, budgets, profiles, today,
                   nextCategoryId, nextTransactionId, nextBudgetId>>

months_ago_call(d, n) ==
    /\ response' = [today |-> d, n |-> n,
                    result |-> months_ago(d, n),
                    call |-> "months_ago",
                    buckets |-> MonthlyBuckets(d)]
    /\ UNCHANGED <<categories, transactions, budgets, profiles, today,
                   nextCategoryId, nextTransactionId, nextBudgetId>>

\* the rows of one owner in one month, as the three totals are asked for
MaxRows == 2
MonthRows ==
    {rows \in SUBSET [amount : ConvertAmounts, is_refund : BOOLEAN,
                      type : TYPE_CHOICES, id : 1..MaxRows] :
        \A x \in rows, y \in rows : x.id = y.id => x = y}

expense_totals_call(rows) ==
    /\ response' = [rows |-> rows,
                    monthly_expenses |-> monthly_expenses(rows),
                    yearly_expense |-> yearly_expense(rows),
                    chart_expense |-> chart_expense(rows),
                    call |-> "expense_totals"]
    /\ UNCHANGED <<categories, transactions, budgets, profiles, today,
                   nextCategoryId, nextTransactionId, nextBudgetId>>

HelpersNext ==
    \/ \E amount \in ConvertAmounts, from_currency \in CURRENCY_CHOICES,
          to_currency \in CURRENCY_CHOICES, lookup \in RateLookups :
          convert_currency_call(amount, from_currency, to_currency, lookup)
    \/ \E year \in ChartYears, month \in 1..MonthsInYear, n \in 0..MaxMonthsBack :
          months_ago_call([month |-> month, year |-> year], n)
    \/ \E rows \in MonthRows : expense_totals_call(rows)

SpecHelpers == Init /\ [][HelpersNext]_vars

\* ------------------------------------------------------------- properties
OwnedBy(u) == {t \in transactions : t.user = u}

RECURSIVE SumSigned(_)
SumSigned(S) ==
    IF S = {} THEN 0
    ELSE LET t == CHOOSE x \in S : TRUE
         IN signed_amount(t) + SumSigned(S \ {t})

\* the budget alert messages of a response, and its other messages
Notifications(r) == SelectSeq(r.messages, LAMBDA m : m.about = "budget_alert")
NotifiedFor(r, b) == SelectSeq(r.messages,
                         LAMBDA m : m.about = "budget_alert" /\ m.n = b.id)
EmailedFor(r, b) == SelectSeq(r.emails, LAMBDA e : e.budget = b.id)

\* C1: for every owner the dashboard's net worth (income minus non-refund
\* expenses plus refunds) is the sum of signed_amount over the owner's
\* transactions, and a net worth the dashboard has shown is such a sum
C1_NetWorthIsSignedSum ==
    /\ \A u \in Users : net_worth(u, transactions) = SumSigned(OwnedBy(u))
    /\ response.net_worth # 0 =>
           \E u \in Users : response.net_worth = SumSigned(OwnedBy(u))

\* the dashboard shows the net worth of an owner with an income and a refund
C1_Witness ==
    /\ response.net_worth = 8
    /\ \E u \in Users :
         /\ \E t \in OwnedBy(u) : t.type = "expense" /\ t.is_refund
         /\ \E t \in OwnedBy(u) : t.type = "income"

\* C3: signed_amount is +amount for income whatever is_refund, -amount for
\* a non-refund expense, +amount for a refund expense
C3_SignedAmount ==
    \A t \in transactions :
        /\ t.type = "income" => signed_amount(t) = t.amount
        /\ t.type = "expense" /\ ~t.is_refund => signed_amount(t) = 0 - t.amount
        /\ t.type = "expense" /\ t.is_refund => signed_amount(t) = t.amount

\* an income flagged as refund is stored next to a refund expense
C3_Witness ==
    /\ \E t \in transactions : t.type = "income" /\ t.is_refund
    /\ \E t \in transactions : t.type = "expense" /\ t.is_refund

\* C4: for an expense, effective_amount is amount when is_refund is false
\* and -amount when it is true: negative exactly for refunds
C4_EffectiveAmount ==
    \A t \in transactions :
        t.type = "expense" =>
            /\ effective_amount(t) = IF t.is_refund THEN 0 - t.amount ELSE t.amount
            /\ effective_amount(t) < 0 <=> t.is_refund

\* a refund expense and a non-refund expense are stored
C4_Witness ==
    /\ \E t \in transactions : t.type = "expense" /\ t.is_refund
    /\ \E t \in transactions : t.type = "expense" /\ ~t.is_refund

\* the stored transactions a budget covers: its owner's expenses in its
\* category dated from start_date to end_date, both days included
Covered(b) ==
    {t \in transactions : /\ t.user = b.user
                          /\ t.category = b.category
                          /\ t.type = "expense"
                          /\ t.date >= b.start_date
                          /\ t.date <= b.end_date}

\* non-refund amounts minus refund amounts over the covered transactions
NetSpent(b) ==
    SumAmount({t \in Covered(b) : ~t.is_refund})
    - SumAmount({t \in Covered(b) : t.is_refund})

\* C2: spent_amount is max(0, non-refund amounts minus refund amounts) over
\* exactly the covered transactions, so it is never negative and no other
\* transaction changes it
C2_SpentAmount ==
    \A b \in budgets :
        /\ spent_amount(b, transactions) = Max(0, NetSpent(b))
        /\ spent_amount(b, transactions) >= 0

\* a budget whose covered refunds exceed its covered expenses, beside an
\* expense of its category dated outside its range
C2_Witness ==
    \E b \in budgets :
        /\ NetSpent(b) < 0
        /\ \E t \in transactions : /\ t.category = b.category
                                     /\ t.type = "expense"
                                     /\ ~t.is_refund
                                     /\ t.date > b.end_date

\* usage >= k percent, from the spent amount and the cap
UsageAtLeast(b, k) ==
    IF b.amount = 0 THEN 0 >= k
    ELSE IF b.amount > 0 THEN Max(0, NetSpent(b)) * 100 >= k * b.amount
    ELSE Max(0, NetSpent(b)) * 100 <= k * b.amount

\* C5: status is 'exceeded' from 100 percent usage on, 'warning' from 80
\* percent up to but not including 100, 'good' below 80
C5_StatusBands ==
    \A b \in budgets :
        /\ status(b, transactions) = "exceeded" <=> UsageAtLeast(b, 100)
        /\ status(b, transactions) = "warning" <=>
               UsageAtLeast(b, 80) /\ ~UsageAtLeast(b, 100)
        /\ status(b, transactions) = "good" <=> ~UsageAtLeast(b, 80)

\* a budget used to exactly 80 percent
C5_Witness ==
    \E b \in budgets : b.amount > 0 /\ NetSpent(b) * 100 = 80 * b.amount

\* C6: with a cap of 0 usage_percentage is 0 and no division by zero
\* happens; with another cap it is spent_amount / cap * 100
C6_UsagePercentage ==
    \A b \in budgets :
        LET pct == usage_percentage(b, transactions)
        IN /\ pct.den # 0
           /\ b.amount = 0 => pct.num = 0
           /\ b.amount # 0 =>
                  pct.num * b.amount = Max(0, NetSpent(b)) * 100 * pct.den

\* a budget with a cap of 0 and money spent
C6_Witness == \E b \in budgets : b.amount = 0 /\ NetSpent(b) > 0

\* C7: remaining_amount is the cap minus spent_amount, negative exactly
\* when spent exceeds the cap, and is_exceeded is spent_amount > cap
C7_RemainingAndExceeded ==
    \A b \in budgets :
        /\ remaining_amount(b, transactions) = b.amount - Max(0, NetSpent(b))
        /\ spent_amount(b, transactions) + remaining_amount(b, transactions)
               = b.amount
        /\ remaining_amount(b, transactions) < 0 <=> Max(0, NetSpent(b)) > b.amount
        /\ is_exceeded(b, transactions) <=> Max(0, NetSpent(b)) > b.amount

\* a budget spent beyond its cap
C7_Witness ==
    \E b \in budgets : b.amount > 0 /\ NetSpent(b) > b.amount

\* the step is the success of a category deletion: its response carries
\* the "deleted" warning of category_delete
CategoryDeleted ==
    /\ today' = today
    /\ response'.messages # <<>>
    /\ Head(response'.messages).about = "category_delete"

\* t2 is t with its category reference changed to cat and nothing else
SameBut(t, t2, cat) ==
    /\ t2.id = t.id
    /\ t2.user = t.user
    /\ t2.type = t.type
    /\ t2.amount = t.amount
    /\ t2.is_refund = t.is_refund
    /\ t2.currency = t.currency
    /\ t2.amount_in_preferred_currency = t.amount_in_preferred_currency
    /\ t2.date = t.date
    /\ t2.category = cat

\* C8: a category deletion removes that category's row and no other, and
\* keeps every transaction: one that referenced the category is stored with
\* its category None and its other fields as they were, any other one is
\* stored as it was
C8_CategoryDeleteKeepsTransactions ==
    [][CategoryDeleted =>
         \E c \in categories :
            /\ categories' = categories \ {c}
            /\ Cardinality(transactions') = Cardinality(transactions)
            /\ \A t \in transactions :
                  \E t2 \in transactions' :
                     SameBut(t, t2, IF t.category = c.id THEN None
                                    ELSE t.category)]_vars

\* a category was deleted while a transaction referenced it: the category
\* table is empty and the transaction is stored without category
C8_Witness ==
    /\ response.messages # <<>>
    /\ Head(response.messages).about = "category_delete"
    /\ Head(response.messages).n >= 1
    /\ categories = {}
    /\ \E t \in transactions : t.category = None

\* the step stores a new transaction
TransactionCreated == nextTransactionId' = nextTransactionId + 1

\* the transaction stored last, and whether it is (still) stored
Newest == Row(transactions, nextTransactionId - 1)
NewestStored == \E t \in transactions : t.id = nextTransactionId - 1

\* the budgets the alert check of transaction t looks at on this day
Evaluated(t) ==
    {b \in budgets : /\ b.user = t.user
                     /\ b.category = t.category
                     /\ b.start_date <= today
                     /\ today <= b.end_date}

\* usage of b, from the stored transactions, is at least the threshold of
\* its owner's profile
AtThreshold(b) ==
    UsageAtLeast(b, ProfileOf(b.user).budget_alert_threshold)

\* in the state a creation of a categorized expense ends in: a budget the
\* check looked at got a notification iff its usage is at the threshold,
\* and an email iff so and the owner has email alerts on
C9_Post ==
    LET t == Newest
    IN NewestStored /\ (t.type = "expense" /\ t.category # None) =>
         \A b \in Evaluated(t) :
            /\ NotifiedFor(response, b) # <<>> <=> AtThreshold(b)
            /\ EmailedFor(response, b) # <<>> <=>
                   AtThreshold(b) /\ ProfileOf(t.user).budget_alert_email

\* C9: in the alert evaluation of a newly created expense, a notification
\* is emitted for an evaluated budget iff its usage after the save is >= the
\* owner's budget_alert_threshold, and an email is attempted iff that holds
\* and budget_alert_email is true
C9_AlertIffAtThreshold == [][TransactionCreated => C9_Post']_vars

\* a creation notified about a budget and sent no email
C9_Witness ==
    /\ Notifications(response) # <<>>
    /\ response.emails = <<>>
    /\ NewestStored

\* in the state a creation ends in: a budget at the threshold of an owner
\* with email alerts got one notification and one email attempt, and the
\* transaction is stored and reported as added whatever became of the email
C10_Post ==
    LET t == Newest
    IN /\ NewestStored
       /\ response.status = 302
       /\ response.messages # <<>>
       /\ response.messages[Len(response.messages)]
             = Message("success", "transaction_create", 0)
       /\ (t.type = "expense" /\ t.category # None) =>
             \A b \in Evaluated(t) :
                (AtThreshold(b) /\ ProfileOf(t.user).budget_alert_email) =>
                   /\ Len(NotifiedFor(response, b)) = 1
                   /\ Len(EmailedFor(response, b)) = 1

\* C10: a creation that leaves an active budget of the category at usage >=
\* threshold with email alerts on emits exactly one notification and makes
\* exactly one email attempt for it; an attempt that raised is not repeated
\* and the creation is still persisted and reported as a success
C10_OneAlertAndSuccess == [][TransactionCreated => C10_Post']_vars

\* a creation whose one email attempt raised
C10_Witness ==
    /\ response.status = 302
    /\ NewestStored
    /\ Len(Notifications(response)) = 1
    /\ Len(response.emails) = 1
    /\ response.emails[1].outcome = "raised"

\* the step stores a new expense that has a category
CategorizedExpenseCreated ==
    /\ TransactionCreated
    /\ \E t \in transactions' : /\ t.id = nextTransactionId
                                /\ t.type = "expense"
                                /\ t.category # None

\* C11: a request other than the creation of an expense with a category
\* (the creation of an income or of an expense without category, an edit,
\* a delete, any category or budget request) emits no budget notification
\* and no email
C11_AlertOnlyOnCategorizedExpense ==
    [][(today' = today /\ ~CategorizedExpenseCreated) =>
           /\ Notifications(response') = <<>>
           /\ response'.emails = <<>>]_vars

\* an income was created in a category that has a budget, active today and
\* used to the owner's threshold, and the response carries no alert
C11_Witness ==
    /\ NewestStored
    /\ Newest.type = "income"
    /\ Newest.category # None
    /\ \E b \in Evaluated(Newest) : AtThreshold(b)
    /\ response.messages = <<Message("success", "transaction_create", 0)>>
    /\ response.emails = <<>>

\* in the state a creation of a categorized expense ends in: only a budget
\* of the owner and the category that is active today got a notification or
\* an email, and every such budget at the threshold got its notification,
\* wherever the transaction's own date lies
C12_Post ==
    LET t == Newest
    IN NewestStored =>
         \A b \in budgets :
            /\ (NotifiedFor(response, b) # <<>> \/ EmailedFor(response, b) # <<>>)
                  => /\ b.user = t.user
                     /\ b.category = t.category
                     /\ b.start_date <= today
                     /\ today <= b.end_date
            /\ (/\ b.user = t.user
                /\ b.category = t.category
                /\ b.start_date <= today
                /\ today <= b.end_date
                /\ AtThreshold(b))
                  => NotifiedFor(response, b) # <<>>
            /\ (b.start_date <= t.date /\ t.date <= b.end_date
                /\ ~(b.start_date <= today /\ today <= b.end_date))
                  => /\ NotifiedFor(response, b) = <<>>
                     /\ EmailedFor(response, b) = <<>>

\* C12: the budgets evaluated for an alert are exactly the owner's budgets
\* of the transaction's category with start_date <= today <= end_date,
\* whatever the transaction's date: a budget active today is evaluated for
\* a back-dated transaction, a budget active only on the transaction's date
\* is not
C12_EvaluatesBudgetsActiveToday ==
    [][CategorizedExpenseCreated => C12_Post']_vars

\* a back-dated expense, dated before the budget starts, was created and
\* the budget active today was notified about
C12_Witness ==
    /\ NewestStored
    /\ Newest.date < today
    /\ \E b \in budgets : /\ Newest.date < b.start_date
                          /\ NotifiedFor(response, b) # <<>>

\* the step ran the alert evaluation: it emitted a budget notification
AlertEvaluated ==
    /\ TransactionCreated
    /\ Notifications(response') # <<>>

TransactionFormValid(u, f) ==
    /\ TransactionFieldsValid(u, f, categories)
    /\ ~TransactionForm_clean(u, f, categories, nextCategoryId).error

\* C14: a valid transaction create or edit by an owner without profile does
\* not fail: the response is the redirect, the transaction is stored with
\* its amount converted to USD, and no notification or email is emitted
C14_MissingProfileTolerated ==
    [][\A u \in Users :
          ~HasProfile(u) =>
             /\ \A f \in TransactionInputs :
                   (TransactionFormValid(u, f) /\ transaction_create(u, f)) =>
                      /\ response'.status = 302
                      /\ Notifications(response') = <<>>
                      /\ response'.emails = <<>>
                      /\ \E t \in transactions' \ transactions :
                            /\ t.user = u
                            /\ t.amount = f.amount
                            /\ f.currency = "USD" =>
                                  t.amount_in_preferred_currency = f.amount
             /\ \A pk \in 1..MaxTransactions :
                   (Found(transactions, pk, u) /\ transaction_edit(u, pk)) =>
                      response'.status \in {200, 302}]_vars

\* the last call was of the helper fn
Called(fn) == "call" \in DOMAIN response /\ response.call = fn

\* C15: convert_currency between equal currencies returns the amount as it
\* is and makes no call to the rate source
C15_ConvertIdentity ==
    (Called("convert_currency") /\ response.from_currency = response.to_currency)
        => /\ response.result = response.amount
           /\ response.requests = 0

\* a conversion between equal currencies while the rate source would have
\* answered with another value
C15_Witness ==
    /\ Called("convert_currency")
    /\ response.from_currency = response.to_currency
    /\ response.lookup = "success"
    /\ response.amount = 4

\* C16: between different currencies a lookup that raised, was malformed
\* or was not a success gives the amount back unchanged; a value other
\* than the amount is returned only on a success
C16_ConvertFailOpen ==
    (Called("convert_currency") /\ response.from_currency # response.to_currency)
        => /\ response.lookup \in {"exception", "malformed", "error"}
                 => response.result = response.amount
           /\ response.result # response.amount => response.lookup = "success"
           /\ response.lookup = "success" => response.result = 9

\* a conversion from USD to EUR whose response was not a success
C16_Witness ==
    /\ Called("convert_currency")
    /\ response.from_currency = "USD"
    /\ response.to_currency = "EUR"
    /\ response.lookup = "error"
    /\ response.result = 4

\* the number of a month counted from year 0
MonthIndex(my) == MonthsInYear * my[2] + my[1]

\* C17: _months_ago(today, n) gives (m, y) with 1 <= m <= 12 and
\* 12*y + m = 12*today.year + today.month - n; one month back from January
\* 2026 is December 2025, six back from March 2026 is September 2025; the
\* six chart months are consecutive, distinct and end at the current month
C17_MonthsAgo ==
    Called("months_ago") =>
        LET d == response.today
            r == response.result
            bs == response.buckets
        IN /\ r[1] >= 1 /\ r[1] <= 12
           /\ MonthIndex(r) = 12 * d.year + d.month - response.n
           /\ (d.year = 2026 /\ d.month = 1 /\ response.n = 1) => r = <<12, 2025>>
           /\ (d.year = 2026 /\ d.month = 3 /\ response.n = 6) => r = <<9, 2025>>
           /\ Len(bs) = 6
           /\ bs[6] = <<d.month, d.year>>
           /\ \A k \in 1..5 : MonthIndex(bs[k + 1]) = MonthIndex(bs[k]) + 1
           /\ \A j, k \in 1..6 : j # k => bs[j] # bs[k]
           /\ \A k \in 1..6 : bs[k][1] >= 1 /\ bs[k][1] <= 12

\* one month back from January 2026
C17_Witness ==
    /\ Called("months_ago")
    /\ response.today = [month |-> 1, year |-> 2026]
    /\ response.n = 1
    /\ response.result = <<12, 2025>>

\* the step is a transaction create or edit request that was rejected: the
\* form is shown again with its errors
TransactionRejected ==
    /\ response'.status = 200
    /\ \E u \in Users :
          \/ \E f \in TransactionInputs : transaction_create(u, f)
          \/ \E pk \in 1..MaxTransactions :
                Found(transactions, pk, u) /\ transaction_edit(u, pk)

\* C18: a rejected transaction create or edit is not partially applied:
\* the stored categories, transactions and budgets are as before, also
\* when the form names a new category
C18_RejectedNotApplied ==
    [][TransactionRejected =>
          /\ categories' = categories
          /\ transactions' = transactions
          /\ budgets' = budgets]_vars

\* the rows of owner u in the three tables
RowsOf(u) ==
    <<{c \in categories : c.user = u},
      {t \in transactions : t.user = u},
      {b \in budgets : b.user = u}>>

\* the not-found outcome: a 404 and nothing stored changes
NotFoundOutcome ==
    /\ response' = Plain(404)
    /\ UNCHANGED <<categories, transactions, budgets, profiles>>

\* a category reference stays within its owner (no row is stored at the
\* start)
OwnCategoriesOnly ==
    /\ \A t \in transactions :
          t.category # None =>
             \E c \in categories : c.id = t.category /\ c.user = t.user
    /\ \A b \in budgets :
          \E c \in categories : c.id = b.category /\ c.user = b.user

\* C19: a request of owner A leaves every row of another owner B as it is
\* (a step that changes a row of B is no request of A);
\* an edit, delete or detail request naming a row that is not A's ends in
\* the not-found outcome, for a row of B as for a row that does not exist;
\* no transaction or budget refers to a category of another owner
C19_OwnerIsolation ==
    [][/\ OwnCategoriesOnly'
       /\ \A A \in Users :
            /\ \A B \in Users \ {A} :
                  RowsOf(B)' # RowsOf(B) => ~RequestBy(A)
            /\ \A pk \in 1..MaxTransactions :
                  (/\ ~Found(transactions, pk, A)
                   /\ \/ transaction_edit(A, pk)
                      \/ transaction_delete(A, pk)
                      \/ transaction_detail(A, pk)) => NotFoundOutcome
            /\ \A pk \in 1..MaxCategories :
                  (/\ ~Found(categories, pk, A)
                   /\ \/ \E name \in Names, type \in TYPE_CHOICES :
                            category_edit(A, pk, name, type)
                      \/ category_delete(A, pk)) => NotFoundOutcome
            /\ \A pk \in 1..MaxBudgets :
                  (/\ ~Found(budgets, pk, A)
                   /\ \/ \E g \in BudgetInputs : budget_edit(A, pk, g)
                      \/ budget_delete(A, pk)) => NotFoundOutcome]_vars

\* a request was answered not-found while every key a request can name
\* exists: the category and the budget belong to owner 2, and each owner
\* has a transaction
C19_Witness ==
    /\ response = Plain(404)
    /\ \E c \in categories : c.user = 2
    /\ \E b \in budgets : b.user = 2
    /\ \E t \in transactions : t.user = 1
    /\ \E t \in transactions : t.user = 2

\* C20: every budget stored by a step (none is stored at the start) has
\* start_date < end_date, and a budget create
\* or edit posted with start_date >= end_date is rejected (the form is shown
\* again, or the edited budget is not found) and the stored budgets stay as
\* they are
C20_BudgetRange ==
    [][/\ \A b \in budgets' : b.start_date < b.end_date
       /\ \A u \in Owner, g \in BadRangeInputs :
            (\/ budget_create(u, g)
             \/ \E pk \in 1..MaxBudgets : budget_edit(u, pk, g))
               => /\ budgets' = budgets
                  /\ response'.status \in {200, 404}
                  /\ response'.messages = <<>>]_vars

\* a budget was edited and is stored with the shortest range there is
C20_Witness ==
    /\ response = Done("budget_edit")
    /\ \E b \in budgets : b.start_date + 1 = b.end_date

\* C21: every stored transaction has an amount of at least one minor unit,
\* a refund too: it is a positive amount with is_refund set
C21_AmountPositive ==
    \A t \in transactions : t.amount >= MinAmount /\ t.amount > 0

\* a transaction was edited into a refund, stored with a positive amount
C21_Witness ==
    /\ response = Done("transaction_edit")
    /\ \E t \in transactions : t.is_refund /\ t.amount = 4

\* every stored transaction that has a category has that category's type
SameDirection ==
    \A t \in transactions :
        t.category # None =>
            \E c \in categories : c.id = t.category /\ c.type = t.type

\* form f picks a stored category of user u whose type is not the form's
PairsOtherDirection(u, f) ==
    /\ f.new_category = ""
    /\ Found(categories, f.category, u)
    /\ Row(categories, f.category).type # f.type

\* C22: after every category and transaction request each stored
\* transaction with a category has the category's direction, and a
\* transaction form that picks a category of the other direction is
\* rejected with nothing stored
C22_SameDirection ==
    [][/\ SameDirection'
       /\ \A u \in Users, f \in TransactionInputs :
             (PairsOtherDirection(u, f) /\ transaction_create(u, f))
                => /\ response' = Plain(200)
                   /\ transactions' = transactions]_vars

\* C23: the category of every stored budget is an expense category of the
\* budget's owner
C23_BudgetCategoryIsExpense ==
    \A b \in budgets :
        \E c \in categories : /\ c.id = b.category
                              /\ c.user = b.user
                              /\ c.type = "expense"

Namesakes(u, f) ==
    {c \in categories : c.user = u /\ c.name = f.new_category /\ c.type = f.type}

UniqueCategories ==
    \A c \in categories, d \in categories :
        (c.user = d.user /\ c.name = d.name /\ c.type = d.type) => c.id = d.id

\* C25: after any sequence of category create and edit requests and of
\* transaction requests that name a new category, no two stored categories
\* have the same (user, name, type); a transaction form that names an
\* existing (user, name, type) in new_category stores no second category and
\* files the transaction under the existing one
C25_UniqueCategories ==
    [][/\ UniqueCategories'
       /\ \A u \in Users, f \in NewCategoryForms :
            (Namesakes(u, f) # {} /\ transaction_create_upto(MaxCatalogue, u, f))
               => /\ categories' = categories
                  /\ \A t \in transactions' \ transactions :
                        t.category \in {c.id : c \in Namesakes(u, f)}]_vars

\* owner 1 has Food both ways next to owner 2's Food, and the last
\* transaction was filed under a category stored before it
C25_Witness ==
    /\ Cardinality({c \in categories : c.name = "Food"}) = 3
    /\ \E c \in categories, d \in categories :
          c.user = d.user /\ c.type # d.type /\ c.name = d.name
    /\ response = Done("transaction_create")
    /\ \E t \in transactions :
          /\ t.id = nextTransactionId - 1
          /\ t.category # None
          /\ \E o \in transactions : o.id < t.id /\ o.category = t.category

C28_BudgetsFollowCategory ==
    [][/\ \A b \in budgets' : \E c \in categories' : c.id = b.category
       /\ CategoryDeleted =>
            \E c \in categories :
               /\ categories' = categories \ {c}
               /\ budgets' = {b \in budgets : b.category # c.id}
               /\ Cardinality(transactions') = Cardinality(transactions)
               /\ \A t \in transactions' :
                     t.category # c.id]_vars

\* a category was deleted while a budget and a transaction referenced it:
\* the one budget ever created is gone, and the transaction is stored
\* without category
C28_Witness ==
    /\ response.messages # <<>>
    /\ Head(response.messages).about = "category_delete"
    /\ Head(response.messages).n >= 1
    /\ nextBudgetId > 1
    /\ budgets = {}
    /\ \E t \in transactions : t.category = None /\ t.type = "expense"

\* in the state a creation ends in: every budget the check looked at whose
\* usage is at the threshold got a notification
C30_Post ==
    \A b \in Evaluated(Newest) :
        AtThreshold(b) => NotifiedFor(response, b) # <<>>

\* C30: every creation of an expense that has a category, a refund or a
\* transaction dated outside the budget's range included, emits a
\* notification for each budget active today whose usage after the save is
\* >= the threshold, whatever the usage was before the save
C30_LevelTriggered == [][CategorizedExpenseCreated => C30_Post']_vars

\* a refund inside the range of a budget already over the threshold lowered
\* its usage, left it at the threshold, and was notified about
C30_Witness ==
    /\ NewestStored
    /\ Newest.is_refund /\ Newest.type = "expense"
    /\ \E b \in Evaluated(Newest) :
          /\ Newest \in Covered(b)
          /\ AtThreshold(b)
          /\ b.amount > 0
          /\ spent_amount(b, transactions \ {Newest})
                > spent_amount(b, transactions)
          /\ NotifiedFor(response, b) # <<>>

\* request r has answered
Answered(r) == response[r].pc = "done"

\* both requests stored an expense, under one category
TwoExpensesStored ==
    /\ \A r \in Requests : Answered(r) /\ response[r].transaction # None
    /\ \A t \in transactions : t.type = "expense" /\ t.category # None
    /\ \A t \in transactions, o \in transactions :
          t.user = o.user /\ t.category = o.category

\* usage of b, were rows the only transactions stored, is at the threshold
AtThresholdWith(b, rows) ==
    ShouldAlert(usage_percentage(b, rows),
                ProfileOf(b.user).budget_alert_threshold)

\* C26: of two concurrent creations of expenses under one category, each
\* emits at most one notification per budget in every interleaving (and
\* both can emit one for the same budget: the witness)
C26_OneNotificationEach ==
    \A r \in Requests, b \in budgets :
        Len(NotifiedFor(response[r].response, b)) <= 1

\* both creations notified about the same budget, though the row saved
\* first does not bring it to the threshold: each read the usage after both
\* rows were saved
C26_Witness ==
    /\ TwoExpensesStored
    /\ \E b \in budgets :
          /\ \A r \in Requests : Len(NotifiedFor(response[r].response, b)) = 1
          /\ ~AtThresholdWith(b, {t \in transactions : t.id = 1})

\* C29: once two concurrent creations of expenses under one category have
\* both answered, a budget of that category active today whose usage is >=
\* the owner's threshold has a notification from at least one of them
C29_NoAlertMissed ==
    TwoExpensesStored =>
        \A b \in budgets :
            (/\ \A t \in transactions : b \in Evaluated(t)
             /\ AtThreshold(b))
               => \E r \in Requests : NotifiedFor(response[r].response, b) # <<>>

\* neither row alone brings the budget to the threshold, both together do,
\* and only the request that read the usage last notified
C29_Witness ==
    /\ TwoExpensesStored
    /\ \E b \in budgets :
          /\ \A t \in transactions : b \in Evaluated(t)
          /\ AtThreshold(b)
          /\ \A t \in transactions : ~AtThresholdWith(b, {t})
          /\ \E r \in Requests : NotifiedFor(response[r].response, b) = <<>>
          /\ \E r \in Requests : NotifiedFor(response[r].response, b) # <<>>

====
